---- MODULE Spec2Model ----
(***************************************************************************)
(* A model of ReversibleList (src/src/lib.rs), its cursors                 *)
(* (src/src/cursor.rs) and its double-ended iterator (src/src/iter.rs).    *)
(*                                                                         *)
(* The heap is a finite set of addresses; a node is live between the       *)
(* allocate() of insert_in_dir and the Box::from_raw of remove.  Every     *)
(* operation of the code is an operator from a "world" record (the list    *)
(* handle, the heap, the cursor that borrows the list, the outcome flags)  *)
(* to the SET of worlds the operation can end in: the allocator may hand   *)
(* out any free address, and a read through a pointer to a freed node      *)
(* (undefined behaviour) may produce any value.                            *)
(***************************************************************************)
EXTENDS Integers, Sequences, FiniteSets

VARIABLES
    start, end, len,            \* ReversibleList
    live, data, prev, next,     \* the heap: allocated addresses, Node fields
    node, index,                \* the cursor that borrows the list
    forward_node, backward_node, finished,   \* the iterator that borrows it
    borrow,                     \* what currently borrows the list
    op, ret,                    \* the last operation and what it returned
    panicked, ub,               \* a panic unwound / undefined behaviour ran
    ref, refret,                \* reference sequence and its return value
    pushes, pops,               \* insertions made / removals that returned
    yielded, calls,             \* iterator: <<direction, node>> yielded, calls
    fresh,                      \* <<node, item>> of the cursor insertion just made
    steps                       \* the calls made by the loops of move_prev_n/move_next_n

listVars == <<start, end, len, live, data, prev, next>>
cursorVars == <<node, index>>
iterVars == <<forward_node, backward_node, finished, yielded, calls>>
vars == <<start, end, len, live, data, prev, next, node, index,
          forward_node, backward_node, finished, borrow, op, ret,
          panicked, ub, ref, refret, pushes, pops, yielded, calls,
          fresh, steps>>

---------------------------------------------------------------------------
(* Bounds *)

MaxNodes == 3
MaxPush == 4
MaxN == 4
MaxItems == 2

Values == {1, 2}
Addr == 1..MaxNodes
None == 0
MaybePointer == {None} \cup Addr

Some(v) == <<v>>
NoneT == <<>>
Unit == <<>>

---------------------------------------------------------------------------
(* Sequence helpers *)

Reverse(s) == [i \in 1..Len(s) |-> s[Len(s) + 1 - i]]

Front(s) == SubSeq(s, 1, Len(s) - 1)

InsertAt(s, i, x) == SubSeq(s, 1, i) \o <<x>> \o SubSeq(s, i + 1, Len(s))

RemoveAt(s, i) == SubSeq(s, 1, i) \o SubSeq(s, i + 2, Len(s))

Min(a, b) == IF a <= b THEN a ELSE b

Max(a, b) == IF a >= b THEN a ELSE b

---------------------------------------------------------------------------
(* The world the operations act on *)

World ==
    [start |-> start, end |-> end, len |-> len,
     live |-> live, data |-> data, prev |-> prev, next |-> next,
     node |-> node, index |-> index,
     ub |-> ub, panicked |-> panicked, ret |-> ret,
     steps |-> <<>>]

SetWorld(w) ==
    /\ start' = w.start /\ end' = w.end /\ len' = w.len
    /\ live' = w.live /\ data' = w.data /\ prev' = w.prev /\ next' = w.next
    /\ node' = w.node /\ index' = w.index
    /\ ub' = w.ub /\ panicked' = w.panicked /\ ret' = w.ret
    /\ steps' = w.steps

\* A read of a Node field through a pointer: the field of a live node; any
\* value when the node was freed (the read is undefined behaviour).
ReadPrev(w, p) == IF p \in w.live THEN {w.prev[p]} ELSE MaybePointer

ReadNext(w, p) == IF p \in w.live THEN {w.next[p]} ELSE MaybePointer

ReadData(w, p) == IF p \in w.live THEN {w.data[p]} ELSE Values

\* The world after an access through p: marked once p is not a live node.
Touch(w, p) == IF p \in w.live THEN w ELSE [w EXCEPT !.ub = TRUE]

---------------------------------------------------------------------------
(* lib.rs *)

new ==
    /\ start = None /\ end = None /\ len = 0

allocate(w) == Addr \ w.live

retrieve_paired_elements(w, anchor, which) ==
    CASE which = "Before" ->
            {<<ele_before_anchor, anchor>> :
                ele_before_anchor \in ReadPrev(w, anchor)}
      [] which = "After" ->
            {<<anchor, ele_after_anchor>> :
                ele_after_anchor \in ReadNext(w, anchor)}
      [] which = "Surrounding" ->
            ReadPrev(w, anchor) \X ReadNext(w, anchor)

\* insert_linked without the back link of the node after the new one.
insert_linked_no_backlink(w, before_new, after_new, new_node, item) ==
    LET w1 == [w EXCEPT !.live = @ \cup {new_node},
                        !.data[new_node] = item,
                        !.prev[new_node] = before_new,
                        !.next[new_node] = after_new]
        w2 == IF before_new # None
              THEN [Touch(w1, before_new) EXCEPT !.next[before_new] = new_node]
              ELSE [w1 EXCEPT !.start = new_node]
        w3 == IF after_new # None
              THEN w2
              ELSE [w2 EXCEPT !.end = new_node]
    IN  [w3 EXCEPT !.len = @ + 1]

\* The body of insert_in_dir once the flanking pair and the new node's
\* address are known.
insert_linked(w, before_new, after_new, new_node, item) ==
    LET w1 == [w EXCEPT !.live = @ \cup {new_node},
                        !.data[new_node] = item,
                        !.prev[new_node] = before_new,
                        !.next[new_node] = after_new]
        w2 == IF before_new # None
              THEN [Touch(w1, before_new) EXCEPT !.next[before_new] = new_node]
              ELSE [w1 EXCEPT !.start = new_node]
        w3 == IF after_new # None
              THEN [Touch(w2, after_new) EXCEPT !.prev[after_new] = new_node]
              ELSE [w2 EXCEPT !.end = new_node]
    IN  [w3 EXCEPT !.len = @ + 1]

insert_in_dir(w, anchor, direction, item) ==
    LET pairs == IF anchor # None
                 THEN retrieve_paired_elements(Touch(w, anchor), anchor, direction)
                 ELSE {<<None, None>>}
        w0 == IF anchor # None THEN Touch(w, anchor) ELSE w
    IN  {insert_linked(w0, pair[1], pair[2], new_node, item) :
            pair \in pairs, new_node \in allocate(w)}

\* remove_unlinked that leaves end on the removed sole node.
remove_unlinked_keep_end(w, before_ele, after_ele) ==
    CASE before_ele = None /\ after_ele = None ->
            [w EXCEPT !.start = None]
      [] before_ele # None /\ after_ele = None ->
            [Touch(w, before_ele) EXCEPT !.next[before_ele] = None,
                                         !.end = before_ele]
      [] before_ele = None /\ after_ele # None ->
            [Touch(w, after_ele) EXCEPT !.prev[after_ele] = None,
                                        !.start = after_ele]
      [] OTHER ->
            [Touch(Touch(w, before_ele), after_ele)
                EXCEPT !.next[before_ele] = after_ele,
                       !.prev[after_ele] = before_ele]

\* remove_unlinked that leaves the new boundary node's link to the removed
\* node in place.
remove_unlinked_stale_link(w, before_ele, after_ele) ==
    CASE before_ele = None /\ after_ele = None ->
            [w EXCEPT !.start = None, !.end = None]
      [] before_ele # None /\ after_ele = None ->
            [Touch(w, before_ele) EXCEPT !.end = before_ele]
      [] before_ele = None /\ after_ele # None ->
            [Touch(w, after_ele) EXCEPT !.start = after_ele]
      [] OTHER ->
            [Touch(Touch(w, before_ele), after_ele)
                EXCEPT !.next[before_ele] = after_ele,
                       !.prev[after_ele] = before_ele]

\* The unlinking of remove for one reading of the node's links.
remove_unlinked(w, before_ele, after_ele) ==
    CASE before_ele = None /\ after_ele = None ->
            [w EXCEPT !.start = None, !.end = None]
      [] before_ele # None /\ after_ele = None ->
            [Touch(w, before_ele) EXCEPT !.next[before_ele] = None,
                                         !.end = before_ele]
      [] before_ele = None /\ after_ele # None ->
            [Touch(w, after_ele) EXCEPT !.prev[after_ele] = None,
                                        !.start = after_ele]
      [] OTHER ->
            [Touch(Touch(w, before_ele), after_ele)
                EXCEPT !.next[before_ele] = after_ele,
                       !.prev[after_ele] = before_ele]

\* Box::from_raw(node) and the move of its data out: the node is freed and
\* its fields are no longer the program's to read.
free(w, p, item) ==
    [Touch(w, p) EXCEPT !.live = @ \ {p},
                        !.data[p] = 1, !.prev[p] = None, !.next[p] = None,
                        !.ret = Some(item)]

\* remove without self.len -= 1.
remove_nocount(w, p) ==
    LET pairs == retrieve_paired_elements(w, p, "Surrounding")
        unlinked == {remove_unlinked(Touch(w, p), pair[1], pair[2]) : pair \in pairs}
    IN  UNION {{free(u, p, item) : item \in ReadData(u, p)} : u \in unlinked}

\* self.len -= 1 on a usize: at 0 a build with overflow checks panics and
\* one without wraps; a len below 0 stands for the wrapped value 2^64 + len.
remove(w, p) ==
    LET pairs == retrieve_paired_elements(w, p, "Surrounding")
        unlinked == {remove_unlinked(Touch(w, p), pair[1], pair[2]) : pair \in pairs}
        counted == {[u EXCEPT !.len = @ - 1] : u \in unlinked}
        freed == UNION {{free(u, p, item) : item \in ReadData(u, p)} : u \in counted}
    IN  freed \cup {[u EXCEPT !.panicked = TRUE] : u \in {x \in unlinked : x.len = 0}}

\* push_front that does what its doc comment says: appends at the end.
push_front_appends(w, item) ==
    {[x EXCEPT !.ret = Unit] : x \in insert_in_dir(w, w.end, "After", item)}

\* push_front that inserts on the far side of the first node.
push_front_after(w, item) ==
    {[x EXCEPT !.ret = Unit] : x \in insert_in_dir(w, w.start, "After", item)}

push_front(w, item) ==
    {[x EXCEPT !.ret = Unit] : x \in insert_in_dir(w, w.start, "Before", item)}

push_back(w, item) ==
    {[x EXCEPT !.ret = Unit] : x \in insert_in_dir(w, w.end, "After", item)}

\* pop_front that counts the pop before it looks for a first node.
pop_front_counted_first(w) ==
    IF w.start = None THEN {[w EXCEPT !.ret = NoneT, !.len = @ - 1]}
    ELSE remove(w, w.start)

pop_front(w) ==
    IF w.start = None THEN {[w EXCEPT !.ret = NoneT]} ELSE remove(w, w.start)

pop_back(w) ==
    IF w.end = None THEN {[w EXCEPT !.ret = NoneT]} ELSE remove(w, w.end)

---------------------------------------------------------------------------
(* cursor.rs: impl_common_cursor!, shared by UndistortedCursor and          *)
(* UndistortedCursorMut                                                    *)

\* usize arithmetic; a value below 0 stands for the wrapped value 2^64 + v.
saturating_sub(a, b) == IF a >= 0 /\ a < b THEN 0 ELSE a - b

abs_diff(a, b) == IF a >= b THEN a - b ELSE b - a

new_front(w) == [w EXCEPT !.node = w.start, !.index = 0]

\* new_back with the length of the list as the cursor's index.
new_back_past_end(w) == [w EXCEPT !.node = w.end, !.index = w.len]

new_back(w) == [w EXCEPT !.node = w.end, !.index = saturating_sub(w.len, 1)]

current(w) ==
    IF w.node = None THEN {NoneT} ELSE {Some(d) : d \in ReadData(w, w.node)}

cursor_index(w) == IF w.node = None THEN NoneT ELSE Some(w.index)

\* move_prev that steps from the first node to "no node" before the last.
move_prev_ghost(w) ==
    IF w.node = None THEN {w}
    ELSE IF w.index = 0
    THEN {[w EXCEPT !.node = None, !.index = 0]}
    ELSE {[Touch(w, w.node) EXCEPT !.node = p, !.index = @ - 1] :
            p \in ReadPrev(w, w.node)}

move_prev(w) ==
    IF w.node = None THEN {w}
    ELSE IF w.index = 0
    THEN {[w EXCEPT !.node = w.end, !.index = saturating_sub(w.len, 1)]}
    ELSE {[Touch(w, w.node) EXCEPT !.node = p, !.index = @ - 1] :
            p \in ReadPrev(w, w.node)}

\* move_next that steps from the last node to "no node" before the first.
move_next_ghost(w) ==
    IF w.node = None THEN {w}
    ELSE IF w.index = saturating_sub(w.len, 1)
    THEN {[w EXCEPT !.node = None, !.index = 0]}
    ELSE {[Touch(w, w.node) EXCEPT !.node = p, !.index = @ + 1] :
            p \in ReadNext(w, w.node)}

\* move_next that counts its index up before it looks for the node.
move_next_counts_first(w) ==
    IF w.node = None THEN {[w EXCEPT !.index = @ + 1]}
    ELSE IF w.index = saturating_sub(w.len, 1)
    THEN {[w EXCEPT !.node = w.start, !.index = 0]}
    ELSE {[Touch(w, w.node) EXCEPT !.node = p, !.index = @ + 1] :
            p \in ReadNext(w, w.node)}

move_next(w) ==
    IF w.node = None THEN {w}
    ELSE IF w.index = saturating_sub(w.len, 1)
    THEN {[w EXCEPT !.node = w.start, !.index = 0]}
    ELSE {[Touch(w, w.node) EXCEPT !.node = p, !.index = @ + 1] :
            p \in ReadNext(w, w.node)}

\* for _ in 0..n { self.move_prev() } from each world of S
RECURSIVE move_prev_times(_, _)
move_prev_times(S, n) ==
    IF n <= 0 THEN S
    ELSE move_prev_times(
            UNION {{[x EXCEPT !.steps = Append(@, "prev")] : x \in move_prev(w)} :
                     w \in S}, n - 1)

RECURSIVE move_next_times(_, _)
move_next_times(S, n) ==
    IF n <= 0 THEN S
    ELSE move_next_times(
            UNION {{[x EXCEPT !.steps = Append(@, "next")] : x \in move_next(w)} :
                     w \in S}, n - 1)

\* move_next_n that walks backward.
move_next_n_backward(w, n) ==
    IF w.len = 0 THEN {[w EXCEPT !.panicked = TRUE]}
    ELSE move_prev_times({w}, IF w.len < 0 THEN n ELSE n % w.len)

\* n % self.list.len panics when len is 0 ("attempt to calculate the
\* remainder with a divisor of zero"), with or without overflow checks.
move_prev_n(w, n) ==
    IF w.len = 0 THEN {[w EXCEPT !.panicked = TRUE]}
    ELSE move_prev_times({w}, IF w.len < 0 THEN n ELSE n % w.len)

move_next_n(w, n) ==
    IF w.len = 0 THEN {[w EXCEPT !.panicked = TRUE]}
    ELSE move_next_times({w}, IF w.len < 0 THEN n ELSE n % w.len)

\* move_to that takes the wrap-around path in the direct path's direction.
move_to_wrap_same_way(w, target_idx) ==
    LET direct_distance == abs_diff(w.index, target_idx)
        wrapping_distance == Min(w.index, target_idx)
                             + abs_diff(Max(w.index, target_idx), w.len)
    IN  CASE w.index < target_idx /\ direct_distance <= wrapping_distance ->
                move_next_n(w, direct_distance)
          [] w.index < target_idx /\ direct_distance > wrapping_distance ->
                move_next_n(w, wrapping_distance)
          [] w.index > target_idx /\ direct_distance <= wrapping_distance ->
                move_prev_n(w, direct_distance)
          [] w.index > target_idx /\ direct_distance > wrapping_distance ->
                move_prev_n(w, wrapping_distance)
          [] OTHER -> {w}

\* move_to that takes the wrap-around path when the two paths tie.
move_to_tie_wraps(w, target_idx) ==
    LET direct_distance == abs_diff(w.index, target_idx)
        wrapping_distance == Min(w.index, target_idx)
                             + abs_diff(Max(w.index, target_idx), w.len)
    IN  CASE w.index < target_idx /\ direct_distance < wrapping_distance ->
                move_next_n(w, direct_distance)
          [] w.index < target_idx /\ direct_distance >= wrapping_distance ->
                move_prev_n(w, wrapping_distance)
          [] w.index > target_idx /\ direct_distance < wrapping_distance ->
                move_prev_n(w, direct_distance)
          [] w.index > target_idx /\ direct_distance >= wrapping_distance ->
                move_next_n(w, wrapping_distance)
          [] OTHER -> {w}

move_to(w, target_idx) ==
    LET direct_distance == abs_diff(w.index, target_idx)
        wrapping_distance == Min(w.index, target_idx)
                             + abs_diff(Max(w.index, target_idx), w.len)
    IN  CASE w.index < target_idx /\ direct_distance <= wrapping_distance ->
                move_next_n(w, direct_distance)
          [] w.index < target_idx /\ direct_distance > wrapping_distance ->
                move_prev_n(w, wrapping_distance)
          [] w.index > target_idx /\ direct_distance <= wrapping_distance ->
                move_prev_n(w, direct_distance)
          [] w.index > target_idx /\ direct_distance > wrapping_distance ->
                move_next_n(w, wrapping_distance)
          [] OTHER -> {w}

undistorted_cursor_at(w, idx) == move_to(new_back(w), idx)

---------------------------------------------------------------------------
(* cursor.rs: UndistortedCursorMut *)

\* insert_after that leaves the cursor on "no node" when the list was empty.
insert_after_no_repoint(w, item) ==
    {[x EXCEPT !.ret = Unit] : x \in insert_in_dir(w, w.node, "After", item)}

insert_after(w, item) ==
    {[x EXCEPT !.node = IF x.len = 1 THEN x.start ELSE @, !.ret = Unit] :
        x \in insert_in_dir(w, w.node, "After", item)}

\* insert_before that leaves the cursor's index as it was.
insert_before_keep_index(w, item) ==
    {[x EXCEPT !.node = IF x.len = 1 THEN x.start ELSE @, !.ret = Unit] :
        x \in insert_in_dir(w, w.node, "Before", item)}

\* insert_before that counts its index up on a list that was empty too.
insert_before_always_counts(w, item) ==
    {[x EXCEPT !.node = IF x.len = 1 THEN x.start ELSE @,
               !.index = @ + 1,
               !.ret = Unit] :
        x \in insert_in_dir(w, w.node, "Before", item)}

insert_before(w, item) ==
    {[x EXCEPT !.node = IF x.len = 1 THEN x.start ELSE @,
               !.index = IF x.len = 1 THEN @ ELSE @ + 1,
               !.ret = Unit] :
        x \in insert_in_dir(w, w.node, "Before", item)}

\* remove_current_moved that leaves the index when it steps back from the
\* removed last node.
remove_current_moved_keep_index(w, p, n) ==
    CASE n # None -> {[w EXCEPT !.node = n]}
      [] n = None /\ p # None -> {[w EXCEPT !.node = p]}
      [] OTHER -> {[w EXCEPT !.node = None]}

\* remove_current_moved that goes to "no node" whenever there is no next.
remove_current_moved_stop_at_end(w, p, n) ==
    CASE n # None -> {[w EXCEPT !.node = n]}
      [] OTHER -> {[w EXCEPT !.node = None]}

\* remove_current_moved that leaves the cursor on the node being removed.
remove_current_moved_stays(w, p, n) == {w}

\* The cursor's new place for one reading of the current node's links;
\* self.index -= 1 at index 0 panics or wraps as len does in remove.
remove_current_moved(w, p, n) ==
    CASE n # None -> {[w EXCEPT !.node = n]}
      [] n = None /\ p # None ->
            {[w EXCEPT !.node = p, !.index = @ - 1]}
            \cup (IF w.index = 0 THEN {[w EXCEPT !.panicked = TRUE]} ELSE {})
      [] OTHER -> {[w EXCEPT !.node = None]}

remove_current(w) ==
    IF w.node = None THEN {[w EXCEPT !.ret = NoneT]}
    ELSE LET moved == UNION {remove_current_moved(Touch(w, w.node), pn[1], pn[2]) :
                                pn \in ReadPrev(w, w.node) \X ReadNext(w, w.node)}
         IN  UNION {IF m.panicked THEN {m} ELSE remove(m, w.node) : m \in moved}

\* while cursor.remove_current().is_some() {}: each run is a record of the
\* world, the number of calls that returned Some so far and whether the
\* loop calls again; fuel bounds the calls followed.
RECURSIVE drain(_, _)
drain(S, fuel) ==
    IF fuel <= 0 THEN S
    ELSE LET again == {t \in S : t.more}
             stepped == UNION {{[w |-> x,
                                 n |-> t.n + (IF x.ret # NoneT /\ ~x.panicked
                                              THEN 1 ELSE 0),
                                 more |-> x.ret # NoneT /\ ~x.panicked] :
                                    x \in remove_current(t.w)} : t \in again}
         IN  (S \ again) \cup (IF again = {} THEN {} ELSE drain(stepped, fuel - 1))

\* lib.rs, impl Drop: a front cursor removes until remove_current returns
\* None. A list holds at most MaxNodes nodes, so MaxNodes + 1 calls end the
\* loop unless it does not end.
drop_runs(w) ==
    drain({[w |-> new_front(w), n |-> 0, more |-> TRUE]}, MaxNodes + 1)

\* A drop that frees nothing.
drop_leak(w) == {[w EXCEPT !.node = None, !.index = 0, !.ret = Unit]}

drop(w) ==
    {[t.w EXCEPT !.node = None, !.index = 0, !.ret = Unit] : t \in drop_runs(w)}

\* for item in iter { back_cursor.insert_after(item); back_cursor.move_next(); }
\* from each world of S; a panic unwinds out of the loop.
RECURSIVE extend_items(_, _)
extend_items(S, items) ==
    IF items = <<>> THEN S
    ELSE LET going == {x \in S : ~x.panicked}
             inserted == UNION {insert_after(x, Head(items)) : x \in going}
             stepped == UNION {IF y.panicked THEN {y} ELSE move_next(y) :
                                 y \in inserted}
         IN  (S \ going) \cup extend_items(stepped, Tail(items))

\* extend that starts from the front cursor.
extend_from_front(w, items) ==
    {[x EXCEPT !.node = None, !.index = 0, !.ret = Unit] :
        x \in extend_items({new_front(w)}, items)}

\* The cursor is gone when extend returns.
extend(w, items) ==
    {[x EXCEPT !.node = None, !.index = 0, !.ret = Unit] :
        x \in extend_items({new_back(w)}, items)}

\* let mut list = Self::new(); list.extend(iter); list
from_iter(w, items) ==
    extend([w EXCEPT !.start = None, !.end = None, !.len = 0], items)

---------------------------------------------------------------------------
(* iter.rs *)

Iterator ==
    [forward_node |-> forward_node, backward_node |-> backward_node,
     finished |-> finished]

iter_new(forward_start, backward_start) ==
    [forward_node |-> forward_start, backward_node |-> backward_start,
     finished |-> FALSE]

\* next_in_dir whose backward step follows next instead of prev.
next_in_dir_backward_next(w, it, direction) ==
    IF it.finished THEN {<<it, None, w>>}
    ELSE LET it1 == IF it.forward_node = it.backward_node
                    THEN [it EXCEPT !.finished = TRUE] ELSE it
         IN  IF direction = "Forward"
             THEN IF it1.forward_node = None THEN {<<it1, None, w>>}
                  ELSE {<<[it1 EXCEPT !.forward_node = n], it1.forward_node,
                          Touch(w, it1.forward_node)>> :
                            n \in ReadNext(w, it1.forward_node)}
             ELSE IF it1.backward_node = None THEN {<<it1, None, w>>}
                  ELSE {<<[it1 EXCEPT !.backward_node = n], it1.backward_node,
                          Touch(w, it1.backward_node)>> :
                            n \in ReadNext(w, it1.backward_node)}

\* next_in_dir that stops at the meeting node without yielding it.
next_in_dir_early_stop(w, it, direction) ==
    IF it.finished \/ it.forward_node = it.backward_node
    THEN {<<[it EXCEPT !.finished = TRUE], None, w>>}
    ELSE IF direction = "Forward"
         THEN {<<[it EXCEPT !.forward_node = n], it.forward_node,
                 Touch(w, it.forward_node)>> :
                   n \in ReadNext(w, it.forward_node)}
         ELSE {<<[it EXCEPT !.backward_node = n], it.backward_node,
                 Touch(w, it.backward_node)>> :
                   n \in ReadPrev(w, it.backward_node)}

\* One call of next_in_dir: the set of <<iterator after, node yielded or
\* None, world after>>.
next_in_dir(w, it, direction) ==
    IF it.finished THEN {<<it, None, w>>}
    ELSE LET it1 == IF it.forward_node = it.backward_node
                    THEN [it EXCEPT !.finished = TRUE] ELSE it
         IN  IF direction = "Forward"
             THEN IF it1.forward_node = None THEN {<<it1, None, w>>}
                  ELSE {<<[it1 EXCEPT !.forward_node = n], it1.forward_node,
                          Touch(w, it1.forward_node)>> :
                            n \in ReadNext(w, it1.forward_node)}
             ELSE IF it1.backward_node = None THEN {<<it1, None, w>>}
                  ELSE {<<[it1 EXCEPT !.backward_node = n], it1.backward_node,
                          Touch(w, it1.backward_node)>> :
                            n \in ReadPrev(w, it1.backward_node)}

\* What a yielded reference reads: Some(&old_node.data).
item_of(w, p) == IF p = None THEN {NoneT} ELSE {Some(d) : d \in ReadData(w, p)}

\* iter().collect() / iter().rev().collect(): next_in_dir in one direction
\* until it returns None. fuel stops the walk of a corrupted chain.
RECURSIVE collect(_, _, _, _)
collect(w, it, direction, fuel) ==
    LET r == CHOOSE x \in next_in_dir(w, it, direction) : TRUE
    IN  IF r[2] = None \/ fuel = 0 THEN <<>>
        ELSE <<CHOOSE d \in ReadData(w, r[2]) : TRUE>>
             \o collect(w, r[1], direction, fuel - 1)

---------------------------------------------------------------------------
(* The state machine: one action per public operation *)

MaxExtraCalls == 2

Running == ~panicked /\ ~ub

Init ==
    /\ new
    /\ live = {}
    /\ data = [a \in Addr |-> 1]
    /\ prev = [a \in Addr |-> None]
    /\ next = [a \in Addr |-> None]
    /\ node = None /\ index = 0
    /\ forward_node = None /\ backward_node = None /\ finished = FALSE
    /\ borrow = "none"
    /\ op = "new" /\ ret = Unit
    /\ panicked = FALSE /\ ub = FALSE
    /\ ref = <<>> /\ refret = Unit
    /\ pushes = 0 /\ pops = 0
    /\ yielded = <<>> /\ calls = 0
    /\ fresh = <<>>
    /\ steps = <<>>

Returned(w) == IF w.ret # NoneT /\ ~w.panicked THEN 1 ELSE 0

PushFront(item) ==
    /\ Running /\ borrow = "none" /\ pushes < MaxPush
    /\ \E w \in push_front(World, item) : SetWorld(w)
    /\ op' = "push_front" /\ fresh' = <<>>
    /\ ref' = <<item>> \o ref /\ refret' = Unit
    /\ pushes' = pushes + 1
    /\ UNCHANGED <<iterVars, borrow, pops>>

PushBack(item) ==
    /\ Running /\ borrow = "none" /\ pushes < MaxPush
    /\ \E w \in push_back(World, item) : SetWorld(w)
    /\ op' = "push_back" /\ fresh' = <<>>
    /\ ref' = Append(ref, item) /\ refret' = Unit
    /\ pushes' = pushes + 1
    /\ UNCHANGED <<iterVars, borrow, pops>>

PopFront ==
    /\ Running /\ borrow = "none"
    /\ \E w \in pop_front(World) : SetWorld(w) /\ pops' = pops + Returned(w)
    /\ op' = "pop_front" /\ fresh' = <<>>
    /\ ref' = (IF ref = <<>> THEN ref ELSE Tail(ref))
    /\ refret' = (IF ref = <<>> THEN NoneT ELSE Some(Head(ref)))
    /\ UNCHANGED <<iterVars, borrow, pushes>>

PopBack ==
    /\ Running /\ borrow = "none"
    /\ \E w \in pop_back(World) : SetWorld(w) /\ pops' = pops + Returned(w)
    /\ op' = "pop_back" /\ fresh' = <<>>
    /\ ref' = (IF ref = <<>> THEN ref ELSE Front(ref))
    /\ refret' = (IF ref = <<>> THEN NoneT ELSE Some(ref[Len(ref)]))
    /\ UNCHANGED <<iterVars, borrow, pushes>>

Observed == UNCHANGED <<iterVars, ref, pushes, pops>> /\ refret' = Unit

CursorFront ==
    /\ Running /\ borrow = "none"
    /\ SetWorld([new_front(World) EXCEPT !.ret = Unit])
    /\ borrow' = "cursor" /\ op' = "undistorted_cursor_front" /\ fresh' = <<>>
    /\ Observed

CursorBack ==
    /\ Running /\ borrow = "none"
    /\ SetWorld([new_back(World) EXCEPT !.ret = Unit])
    /\ borrow' = "cursor" /\ op' = "undistorted_cursor_back" /\ fresh' = <<>>
    /\ Observed

CursorAt(idx) ==
    /\ Running /\ borrow = "none"
    /\ \E w \in undistorted_cursor_at(World, idx) : SetWorld([w EXCEPT !.ret = Unit])
    /\ borrow' = "cursor" /\ op' = "undistorted_cursor_at" /\ fresh' = <<>>
    /\ Observed

CursorFrontMut ==
    /\ Running /\ borrow = "none"
    /\ SetWorld([new_front(World) EXCEPT !.ret = Unit])
    /\ borrow' = "cursor_mut" /\ op' = "undistorted_cursor_front_mut" /\ fresh' = <<>>
    /\ Observed

CursorBackMut ==
    /\ Running /\ borrow = "none"
    /\ SetWorld([new_back(World) EXCEPT !.ret = Unit])
    /\ borrow' = "cursor_mut" /\ op' = "undistorted_cursor_back_mut" /\ fresh' = <<>>
    /\ Observed

HasCursor == borrow \in {"cursor", "cursor_mut"}

MovePrev ==
    /\ Running /\ HasCursor
    /\ \E w \in move_prev(World) : SetWorld([w EXCEPT !.ret = Unit])
    /\ op' = "move_prev" /\ fresh' = <<>>
    /\ UNCHANGED borrow /\ Observed

MoveNext ==
    /\ Running /\ HasCursor
    /\ \E w \in move_next(World) : SetWorld([w EXCEPT !.ret = Unit])
    /\ op' = "move_next"
    /\ fresh' = (IF op = "insert_after" THEN fresh ELSE <<>>)
    /\ UNCHANGED borrow /\ Observed

MovePrevN(n) ==
    /\ Running /\ HasCursor
    /\ \E w \in move_prev_n(World, n) : SetWorld([w EXCEPT !.ret = Unit])
    /\ op' = "move_prev_n" /\ fresh' = <<>>
    /\ UNCHANGED borrow /\ Observed

MoveNextN(n) ==
    /\ Running /\ HasCursor
    /\ \E w \in move_next_n(World, n) : SetWorld([w EXCEPT !.ret = Unit])
    /\ op' = "move_next_n" /\ fresh' = <<>>
    /\ UNCHANGED borrow /\ Observed

MoveTo(target_idx) ==
    /\ Running /\ HasCursor
    /\ \E w \in move_to(World, target_idx) : SetWorld([w EXCEPT !.ret = Unit])
    /\ op' = "move_to" /\ fresh' = <<>>
    /\ UNCHANGED borrow /\ Observed

\* The reference sequence under the cursor's insertions and removals: the
\* item goes in at the cursor's index (+1 after it), the element at the
\* cursor's index comes out.
RefIndex == IF index < 0 THEN 0 ELSE Min(index, Len(ref))

InsertAfter(item) ==
    /\ Running /\ borrow = "cursor_mut" /\ pushes < MaxPush
    /\ \E w \in insert_after(World, item) :
        /\ SetWorld(w)
        /\ fresh' = <<CHOOSE x \in w.live : x \notin live, item>>
    /\ op' = "insert_after"
    /\ ref' = InsertAt(ref, Min(RefIndex + 1, Len(ref)), item) /\ refret' = Unit
    /\ pushes' = pushes + 1
    /\ UNCHANGED <<iterVars, borrow, pops>>

InsertBefore(item) ==
    /\ Running /\ borrow = "cursor_mut" /\ pushes < MaxPush
    /\ \E w \in insert_before(World, item) :
        /\ SetWorld(w)
        /\ fresh' = <<CHOOSE x \in w.live : x \notin live, item>>
    /\ op' = "insert_before"
    /\ ref' = InsertAt(ref, RefIndex, item) /\ refret' = Unit
    /\ pushes' = pushes + 1
    /\ UNCHANGED <<iterVars, borrow, pops>>

RemoveCurrent ==
    /\ Running /\ borrow = "cursor_mut"
    /\ \E w \in remove_current(World) : SetWorld(w) /\ pops' = pops + Returned(w)
    /\ op' = "remove_current" /\ fresh' = <<>>
    /\ ref' = (IF RefIndex < Len(ref) THEN RemoveAt(ref, RefIndex) ELSE ref)
    /\ refret' = (IF RefIndex < Len(ref) THEN Some(ref[RefIndex + 1]) ELSE NoneT)
    /\ UNCHANGED <<iterVars, borrow, pushes>>

UndistortedIter ==
    /\ Running /\ borrow = "none"
    /\ LET it == iter_new(start, end)
       IN  /\ forward_node' = it.forward_node
           /\ backward_node' = it.backward_node
           /\ finished' = it.finished
    /\ borrow' = "iter" /\ op' = "undistorted_iter" /\ fresh' = <<>> /\ ret' = Unit
    /\ yielded' = <<>> /\ calls' = 0 /\ refret' = Unit /\ steps' = <<>>
    /\ UNCHANGED <<listVars, cursorVars, panicked, ub, ref, pushes, pops>>

IterStep(direction, name) ==
    /\ Running /\ borrow = "iter" /\ calls < len + MaxExtraCalls
    /\ \E r \in next_in_dir(World, Iterator, direction) :
        /\ forward_node' = r[1].forward_node
        /\ backward_node' = r[1].backward_node
        /\ finished' = r[1].finished
        /\ ub' = r[3].ub
        /\ \E item \in item_of(World, r[2]) : ret' = item
        /\ yielded' = (IF r[2] = None THEN yielded
                       ELSE Append(yielded, <<direction, r[2]>>))
    /\ calls' = calls + 1
    /\ op' = name /\ fresh' = <<>> /\ refret' = Unit /\ steps' = <<>>
    /\ UNCHANGED <<listVars, cursorVars, borrow, panicked, ref, pushes, pops>>

IterNext == IterStep("Forward", "next")

IterNextBack == IterStep("Backward", "next_back")

\* The cursor or iterator goes out of scope and the borrow ends.
Release ==
    /\ Running /\ borrow \in {"cursor", "cursor_mut", "iter"}
    /\ borrow' = "none" /\ op' = "release" /\ fresh' = <<>> /\ ret' = Unit /\ refret' = Unit
    /\ steps' = <<>>
    /\ node' = None /\ index' = 0
    /\ forward_node' = None /\ backward_node' = None /\ finished' = FALSE
    /\ yielded' = <<>> /\ calls' = 0
    /\ UNCHANGED <<listVars, panicked, ub, ref, pushes, pops>>

\* The sequences an iterator handed to extend or from_iter can yield.
ItemSeqs == UNION {[1..n -> Values] : n \in 0..MaxItems}

Extend(items) ==
    /\ Running /\ borrow = "none" /\ pushes + Len(items) <= MaxPush
    /\ \E w \in extend(World, items) : SetWorld(w)
    /\ op' = "extend" /\ fresh' = <<>>
    /\ ref' = ref \o items /\ refret' = Unit
    /\ pushes' = pushes + Len(items)
    /\ UNCHANGED <<iterVars, borrow, pops>>

\* The list is built from a sequence instead of by new().
FromIter(items) ==
    /\ Running /\ borrow = "none" /\ op = "new"
    /\ \E w \in from_iter(World, items) : SetWorld(w)
    /\ op' = "from_iter" /\ fresh' = <<>>
    /\ ref' = items /\ refret' = Unit
    /\ pushes' = Len(items)
    /\ UNCHANGED <<iterVars, borrow, pops>>

\* The list goes out of scope; nothing can be done with it afterwards.
Drop ==
    /\ Running /\ borrow = "none"
    /\ \E w \in drop(World) : SetWorld(w)
    /\ borrow' = "dropped" /\ op' = "drop" /\ fresh' = <<>>
    /\ ref' = <<>> /\ refret' = Unit
    /\ UNCHANGED <<iterVars, pushes, pops>>

NextPushPop ==
    \/ \E item \in Values : PushFront(item)
    \/ \E item \in Values : PushBack(item)
    \/ PopFront
    \/ PopBack

Next ==
    \/ \E item \in Values : PushFront(item)
    \/ \E item \in Values : PushBack(item)
    \/ PopFront
    \/ PopBack
    \/ CursorFront
    \/ CursorBack
    \/ \E idx \in 0..MaxNodes : CursorAt(idx)
    \/ CursorFrontMut
    \/ CursorBackMut
    \/ MovePrev
    \/ MoveNext
    \/ \E n \in 0..MaxN : MovePrevN(n)
    \/ \E n \in 0..MaxN : MoveNextN(n)
    \/ \E target_idx \in 0..MaxNodes : MoveTo(target_idx)
    \/ \E item \in Values : InsertAfter(item)
    \/ \E item \in Values : InsertBefore(item)
    \/ RemoveCurrent
    \/ UndistortedIter
    \/ IterNext
    \/ IterNextBack
    \/ Release
    \/ \E items \in ItemSeqs : Extend(items)
    \/ \E items \in ItemSeqs : FromIter(items)
    \/ Drop

Spec == Init /\ [][Next]_vars

SpecPushPop == Init /\ [][NextPushPop]_vars

---------------------------------------------------------------------------
(* What the claims speak of *)

\* The nodes met by following link f from p, at most fuel of them.
RECURSIVE walk(_, _, _)
walk(f, p, fuel) ==
    IF p = None \/ fuel <= 0 THEN <<>>
    ELSE <<p>> \o walk(f, f[p], fuel - 1)

FwdNodes == walk(next, start, len + 1)

BwdNodes == walk(prev, end, len + 1)

\* list.iter().collect() and list.iter().rev().collect()
Forward == collect(World, iter_new(start, end), "Forward", MaxNodes + 1)

Backward == collect(World, iter_new(start, end), "Backward", MaxNodes + 1)

\* The forward traversal of the list of world w.
ForwardOf(w) == collect(w, iter_new(w.start, w.end), "Forward", MaxNodes + 1)

Range(s) == {s[i] : i \in 1..Len(s)}

\* How many of the first i yields went in direction d.
CountDir(d, i) == Cardinality({j \in 1..i : yielded[j][1] = d})

---------------------------------------------------------------------------
(* Claims *)

C2_LenCounts ==
    len = pushes - pops /\ len >= 0

C2_Witness ==
    /\ op = "pop_back" /\ ret # NoneT /\ pushes >= 3 /\ pops >= 2 /\ len >= 1

\* C3: pop_front and pop_back on an empty list return None, do not panic
\* and leave start, end and len as they were.
C3_PopEmpty ==
    [][(op' \in {"pop_front", "pop_back"} /\ len = 0)
        => (ret' = NoneT /\ ~panicked' /\ ~ub'
            /\ start' = start /\ end' = end /\ len' = 0)]_vars

C3_Witness ==
    /\ op \in {"pop_front", "pop_back"} /\ ret = NoneT /\ len = 0
    /\ pushes >= 1 /\ pops = pushes

\* C4: in every reachable state start is absent iff end is absent iff
\* len = 0.
C4_EmptyIff ==
    /\ (start = None) <=> (end = None)
    /\ (end = None) <=> (len = 0)

C4_Witness ==
    /\ op = "remove_current" /\ ret # NoneT /\ len = 0 /\ start = None
    /\ pushes >= 2

\* C5: link symmetry: n.next = Some(m) iff m.prev = Some(n) for live nodes,
\* and the first node has no prev, the last node no next.
C5_LinkSymmetry ==
    /\ \A n \in live :
        /\ next[n] # None => (next[n] \in live /\ prev[next[n]] = n)
        /\ prev[n] # None => (prev[n] \in live /\ next[prev[n]] = n)
    /\ start # None => (start \in live /\ prev[start] = None)
    /\ end # None => (end \in live /\ next[end] = None)

C5_Witness ==
    /\ op = "remove_current" /\ ret # NoneT /\ len = 2 /\ index = 1
    /\ node = end

\* C6: following next from start meets exactly len nodes and then no node,
\* and so does following prev from end; no node is met twice.
C6_WalkLen ==
    /\ Len(FwdNodes) = len /\ Len(BwdNodes) = len
    /\ Cardinality(Range(FwdNodes)) = len
    /\ Cardinality(Range(BwdNodes)) = len
    /\ Range(FwdNodes) \subseteq live /\ Range(BwdNodes) \subseteq live

C6_Witness ==
    /\ op = "insert_after" /\ len = 3 /\ index = 0 /\ node = start
    /\ Len(FwdNodes) = 3

\* C7: the sequence collected by forward-only iteration equals the reverse
\* of the sequence collected by backward-only iteration.
C7_ForwardIsReversedBackward ==
    Running => Forward = Reverse(Backward)

C7_Witness ==
    /\ op \in {"push_front", "push_back", "insert_after", "insert_before"}
    /\ len = 3 /\ Len(Forward) = 3 /\ Forward[1] # Forward[3]
    /\ Forward = Reverse(Backward)

\* C8: with one iterator over a list of length n the first n calls, in any
\* mix of next and next_back, yield every node once (next the front-most
\* node not yet yielded, next_back the back-most), and every later call
\* returns None; on an empty list the first call returns None.
C8_IterInterleaved ==
    (borrow = "iter" /\ Running) =>
        /\ Len(yielded) = Min(calls, len)
        /\ \A i \in 1..Len(yielded) :
            yielded[i][2] = (IF yielded[i][1] = "Forward"
                             THEN FwdNodes[CountDir("Forward", i)]
                             ELSE BwdNodes[CountDir("Backward", i)])
        /\ Cardinality({yielded[i][2] : i \in 1..Len(yielded)}) = Len(yielded)
        /\ calls >= len => {yielded[i][2] : i \in 1..Len(yielded)} = Range(FwdNodes)
        /\ calls > len => ret = NoneT
        /\ (calls >= 1 /\ calls <= len) => ret = Some(data[yielded[calls][2]])

C8_Witness ==
    /\ borrow = "iter" /\ len = 3 /\ calls = 5 /\ ret = NoneT
    /\ Len(yielded) = 3
    /\ yielded[1][1] = "Forward" /\ yielded[2][1] = "Backward"
    /\ yielded[3][1] = "Backward"

\* C9: on a non-empty list move_prev from the first element lands on the
\* last element (index len-1) and move_next from the last on the first
\* (index 0), never on "no node"; elsewhere they follow the link and change
\* the index by one.
C9_WrapDirect ==
    [][(HasCursor /\ Running /\ len > 0 /\ node # None) =>
        /\ op' = "move_prev" =>
            /\ node' # None
            /\ IF node = FwdNodes[1]
               THEN index = 0 /\ node' = FwdNodes[len] /\ index' = len - 1
               ELSE node' = prev[node] /\ index' = index - 1
        /\ op' = "move_next" =>
            /\ node' # None
            /\ IF node = FwdNodes[len]
               THEN index = len - 1 /\ node' = FwdNodes[1] /\ index' = 0
               ELSE node' = next[node] /\ index' = index + 1]_vars

C9_Witness ==
    /\ op = "move_prev" /\ len = 3 /\ index = 2 /\ node = end /\ node # None

\* C10: move_next_n(n) and move_prev_n(n) on a cursor over an empty list
\* never fault and leave the cursor and the list as they were.
C10_MoveNEmptyNoFault ==
    [][(op' \in {"move_next_n", "move_prev_n"} /\ len = 0)
        => (~panicked' /\ UNCHANGED <<listVars, cursorVars>>)]_vars

\* C11: on a non-empty list move_to(k) with 0 <= k < len leaves the cursor
\* on the node at index k of the forward walk with index k, from every
\* starting index.
C11_MoveToLands ==
    [][\A k \in 0..MaxNodes :
        (op' = "move_to" /\ len > 0 /\ k < len /\ MoveTo(k))
            => (~panicked' /\ node' = FwdNodes[k + 1] /\ index' = k
                /\ cursor_index(World)' = Some(k))]_vars

C11_Witness ==
    /\ op = "move_to" /\ HasCursor /\ len = 3 /\ index = 2 /\ node = end
    /\ ~panicked

\* C12: constructing a cursor at an index idx >= len panics instead of
\* returning a cursor.
C12_CursorAtOutOfRangePanics ==
    [][\A idx \in 0..MaxNodes :
        (CursorAt(idx) /\ idx >= len) => panicked']_vars

\* C13: on a non-empty list move_next_n(n) leaves the cursor at index
\* (i + n) mod len and move_prev_n(n) at (i - n) mod len, on the node of
\* that index.
C13_MoveNModular ==
    (HasCursor /\ Running /\ len > 0 /\ node # None) =>
        \A n \in 0..MaxN :
            /\ \A t \in move_next_n(World, n) :
                    /\ ~t.panicked /\ ~t.ub
                    /\ t.index = (index + n) % len
                    /\ t.node = FwdNodes[t.index + 1]
            /\ \A t \in move_prev_n(World, n) :
                    /\ ~t.panicked /\ ~t.ub
                    /\ t.index = (index - n) % len
                    /\ t.node = FwdNodes[t.index + 1]

C13_Witness ==
    /\ op = "move_prev_n" /\ HasCursor /\ len = 3 /\ index = 1
    /\ node = FwdNodes[2] /\ ~panicked

\* C14: on a non-empty list insert_after(x) puts a new node holding x at
\* index i+1 and leaves the cursor on its node with index i; insert_before(x)
\* puts it at index i and leaves the cursor on its node with index i+1; len
\* grows by 1 and the other nodes keep their order and data.
C14_CursorInsert ==
    [][(borrow = "cursor_mut" /\ Running /\ len > 0 /\ node # None
        /\ op' \in {"insert_after", "insert_before"}) =>
        LET new_node == CHOOSE x \in live' : x \notin live
            at == IF op' = "insert_after" THEN index + 1 ELSE index
        IN  /\ Cardinality(live' \ live) = 1
            /\ FwdNodes' = InsertAt(FwdNodes, at, new_node)
            /\ \A after \in {World'} :
                  /\ ForwardOf(after) = InsertAt(Forward, at, data'[new_node])
                  /\ ForwardOf(after) = ref'
            /\ \A x \in live : data'[x] = data[x]
            /\ len' = len + 1
            /\ node' = node
            /\ index' = (IF op' = "insert_after" THEN index ELSE index + 1)
            /\ FwdNodes'[index' + 1] = node']_vars

C14_Witness ==
    /\ op = "insert_before" /\ borrow = "cursor_mut" /\ len = 3 /\ index = 2
    /\ node = FwdNodes[3] /\ Forward = ref

\* C15: insert_after(x) followed by move_next() leaves the cursor on the
\* node just inserted, so that current() is x; also on an empty list and on
\* the last element.
C15_InsertAfterThenNext ==
    [][(borrow = "cursor_mut" /\ op = "insert_after" /\ op' = "move_next")
        => (/\ fresh # <<>>
            /\ node' = fresh[1]
            /\ current(World)' = {Some(fresh[2])}
            /\ ~ub' /\ ~panicked')]_vars

C15_Witness ==
    /\ borrow = "cursor_mut" /\ op = "move_next" /\ fresh # <<>>
    /\ node = fresh[1] /\ node = end /\ len = 3 /\ index = 2
    /\ current(World) = {Some(fresh[2])}

\* C16: remove_current() on the node at index i returns that node's element
\* and removes exactly that node; the cursor then is on the successor with
\* index i, else on the predecessor with index i-1, else on "no node" of the
\* empty list with current() and index() both None.
C16_RemoveCurrent ==
    [][(borrow = "cursor_mut" /\ Running /\ node # None
        /\ op' = "remove_current") =>
        /\ node = FwdNodes[index + 1]
        /\ ret' = Some(Forward[index + 1]) /\ ret' = Some(data[node])
        /\ live' = live \ {node}
        /\ FwdNodes' = RemoveAt(FwdNodes, index)
        /\ \A after \in {World'} : ForwardOf(after) = RemoveAt(Forward, index)
        /\ len' = len - 1
        /\ ~panicked' /\ ~ub'
        /\ IF next[node] # None
           THEN node' = next[node] /\ index' = index
           ELSE IF prev[node] # None
           THEN node' = prev[node] /\ index' = index - 1
           ELSE /\ len' = 0
                /\ current(World)' = {NoneT}
                /\ cursor_index(World)' = NoneT]_vars

C16_Witness ==
    /\ borrow = "cursor_mut" /\ op = "remove_current" /\ ret # NoneT
    /\ len = 2 /\ index = 0 /\ node = start /\ pushes = 3 /\ pops = 1

\* The runs of remove_current() repeated from the present cursor for
\* len + 1 calls.
Drained == drain({[w |-> World, n |-> 0, more |-> TRUE]}, len + 1)

\* C17: from every mutable-cursor state on a list of length n, repeated
\* remove_current() returns an element exactly n times, the list is then
\* empty, and the next call returns None with index() None and the list
\* unchanged.
C17_RemoveUntilEmpty ==
    (borrow = "cursor_mut" /\ Running) =>
        \A t \in Drained :
            /\ ~t.more /\ t.n = len
            /\ t.w.ret = NoneT /\ cursor_index(t.w) = NoneT
            /\ t.w.len = 0 /\ t.w.start = None /\ t.w.end = None
            /\ t.w.live = {}
            /\ ~t.w.ub /\ ~t.w.panicked
            /\ remove_current(t.w) = {t.w}

C17_Witness ==
    /\ borrow = "cursor_mut" /\ op = "remove_current" /\ ret = NoneT
    /\ len = 0 /\ node = None /\ pushes = 3 /\ pops = 3
    /\ cursor_index(World) = NoneT

\* C18: dropping the list in any reachable state frees every remaining
\* node exactly once, leaves none allocated and ends; dropping an empty
\* list frees nothing and does not fault.
C18_DropFreesAll ==
    [][op' = "drop" =>
        /\ live' = {} /\ start' = None /\ end' = None /\ len' = 0
        /\ ~ub' /\ ~panicked'
        /\ \A t \in drop_runs(World) :
            ~t.more /\ t.n = Cardinality(live) /\ t.w.live = {} /\ ~t.w.ub]_vars

C18_Witness ==
    /\ op = "drop" /\ borrow = "dropped" /\ live = {} /\ len = 0
    /\ pushes = 3 /\ pops = 0 /\ ~ub /\ ~panicked

\* C19: in every cursor state current() is None iff the list is empty, and
\* index() is None exactly when current() is.
C19_CurrentNoneIffEmpty ==
    (HasCursor /\ ~ub) =>
        /\ (current(World) = {NoneT}) <=> (len = 0)
        /\ (cursor_index(World) = NoneT) <=> (current(World) = {NoneT})

C19_Witness ==
    /\ borrow = "cursor_mut" /\ op = "insert_before" /\ len = 1 /\ pops >= 1
    /\ node = start /\ current(World) # {NoneT} /\ cursor_index(World) = Some(0)

C21_MoveOnEmptyNoOp ==
    [][(HasCursor /\ Running /\ len = 0 /\ op' \in {"move_next", "move_prev"})
        => (/\ current(World) = {NoneT}
            /\ node' = node /\ index' = index
            /\ UNCHANGED listVars
            /\ current(World)' = {NoneT}
            /\ ~panicked' /\ ~ub'
            /\ move_next(World) = {World} /\ move_prev(World) = {World})]_vars

C21_Witness ==
    /\ op = "move_next" /\ borrow = "cursor_mut" /\ len = 0 /\ pops = 2
    /\ node = None /\ index = 0 /\ live = {} /\ current(World) = {NoneT}

\* n calls of the single-step move named by way.
Moves(way, n) == [j \in 1..n |-> way]

\* C22: move_to(k) from index i with k < len makes exactly min(d, w)
\* single-step moves, d = |i - k| and w = min(i,k) + (len - max(i,k)):
\* towards k without wrapping when d <= w, the other way round when d > w,
\* and none when i = k.
C22_MoveToSteps ==
    [][\A k \in 0..MaxNodes :
        (op' = "move_to" /\ node # None /\ k < len /\ MoveTo(k)) =>
            LET d == IF index >= k THEN index - k ELSE k - index
                w == Min(index, k) + (len - Max(index, k))
            IN  /\ Len(steps') = Min(d, w)
                /\ (index < k /\ d <= w) => steps' = Moves("next", d)
                /\ (index > k /\ d <= w) => steps' = Moves("prev", d)
                /\ (index < k /\ d > w) => steps' = Moves("prev", w)
                /\ (index > k /\ d > w) => steps' = Moves("next", w)
                /\ (index = k) =>
                        (steps' = <<>> /\ node' = node /\ index' = index)
                /\ index' = k /\ ~panicked']_vars

\* A tie taken the direct way: from index 0 of 2 nodes to index 1.
C22_Witness ==
    /\ op = "move_to" /\ HasCursor /\ len = 2 /\ index = 1 /\ node = end
    /\ steps = <<"next">> /\ ~panicked

\* C23: on an empty list insert_after(x) and insert_before(x) through a
\* mutable cursor make x the sole node and put the cursor on it, with
\* index() = Some(0); for a cursor made on an empty list and for one whose
\* list remove_current() has just emptied.
C23_InsertOnEmpty ==
    [][(borrow = "cursor_mut" /\ Running /\ len = 0
        /\ op' \in {"insert_after", "insert_before"}) =>
        /\ node = None /\ index = 0
        /\ fresh' # <<>>
        /\ live' = {fresh'[1]} /\ len' = 1
        /\ start' = fresh'[1] /\ end' = fresh'[1]
        /\ prev'[fresh'[1]] = None /\ next'[fresh'[1]] = None
        /\ data'[fresh'[1]] = fresh'[2]
        /\ node' = fresh'[1]
        /\ \A after \in {World'} :
              /\ cursor_index(after) = Some(0)
              /\ current(after) = {Some(fresh'[2])}
              /\ ForwardOf(after) = <<fresh'[2]>>
        /\ ~panicked' /\ ~ub']_vars

\* A list emptied through the cursor and filled again by insert_before.
C23_Witness ==
    /\ op = "insert_before" /\ borrow = "cursor_mut" /\ len = 1
    /\ pushes = 3 /\ pops = 2 /\ node = start /\ index = 0
    /\ cursor_index(World) = Some(0)

\* C24: on a non-empty list the front cursors are on the first element
\* with index() = Some(0), the back cursors on the last element with
\* index() = Some(len - 1), and the cursor made at k < len is on the k-th
\* element of the forward traversal with index() = Some(k).
C24_CursorFactories ==
    [][(borrow = "none" /\ Running /\ len > 0) =>
        \A after \in {World'} :
            /\ (op' \in {"undistorted_cursor_front",
                         "undistorted_cursor_front_mut"}) =>
                    /\ node' = FwdNodes[1]
                    /\ cursor_index(after) = Some(0)
                    /\ current(after) = {Some(Forward[1])}
            /\ (op' \in {"undistorted_cursor_back",
                         "undistorted_cursor_back_mut"}) =>
                    /\ node' = FwdNodes[len]
                    /\ cursor_index(after) = Some(len - 1)
                    /\ current(after) = {Some(Forward[len])}
            /\ \A k \in 0..MaxNodes : (op' = "undistorted_cursor_at" /\ k < len /\ CursorAt(k)) =>
                    /\ node' = FwdNodes[k + 1]
                    /\ cursor_index(after) = Some(k)
                    /\ current(after) = {Some(Forward[k + 1])}
                    /\ ~panicked' /\ ~ub'
            /\ (op' \in {"undistorted_cursor_front", "undistorted_cursor_back",
                         "undistorted_cursor_front_mut",
                         "undistorted_cursor_back_mut",
                         "undistorted_cursor_at"}) => UNCHANGED listVars]_vars

C24_Witness ==
    /\ op = "undistorted_cursor_at" /\ borrow = "cursor" /\ len = 3
    /\ index = 1 /\ node = FwdNodes[2] /\ steps = <<"prev">>
    /\ current(World) = {Some(Forward[2])} /\ Forward[2] # Forward[3]

\* push_back of each item in order, from each world of S.
RECURSIVE push_back_each(_, _)
push_back_each(S, items) ==
    IF items = <<>> THEN S
    ELSE push_back_each(UNION {push_back(x, Head(items)) : x \in S},
                        Tail(items))

\* C25: extend(items) leaves the old forward traversal followed by the
\* items in their order and len grown by their number, on an empty list and
\* on a non-empty one; a list built from a sequence equals (has the forward
\* traversal of) the list built by push_back of each item in order.
C25_ExtendAppends ==
    [][\A items \in ItemSeqs :
        /\ (op' = "extend" /\ Extend(items)) =>
                \A after \in {World'} :
                    /\ ForwardOf(after) = Forward \o items
                    /\ len' = len + Len(items)
                    /\ ~panicked' /\ ~ub'
                    /\ {ForwardOf(x) : x \in extend(World, items)}
                         = {ForwardOf(x) : x \in push_back_each({World}, items)}
        /\ (op' = "from_iter" /\ FromIter(items)) =>
                \A after \in {World'} :
                    /\ ForwardOf(after) = items
                    /\ len' = Len(items)
                    /\ ~panicked' /\ ~ub'
                    /\ {ForwardOf(x) : x \in from_iter(World, items)}
                         = {ForwardOf(x) : x \in push_back_each({World}, items)}]_vars

\* A list of three elements that extend has returned from.
C25_Witness ==
    /\ op = "extend" /\ borrow = "none" /\ len = 3 /\ pushes = 4 /\ pops = 1
    /\ Forward = <<1, 1, 2>> /\ Forward = ref /\ ~panicked /\ ~ub

\* C26: after any sequence of moves, insertions and removals through a
\* mutable cursor, the cursor has no node, or its node is a live node of
\* the list, its index is smaller than len, and the node is the one reached
\* from start by following next index times; no freed node was accessed.
C26_CursorValid ==
    (borrow = "cursor_mut") =>
        /\ ~ub
        /\ \/ node = None
           \/ /\ node \in live
              /\ index >= 0 /\ index < len
              /\ node = FwdNodes[index + 1]
              /\ node = walk(next, start, index + 1)[index + 1]

\* The cursor after it stepped back from the last node it removed.
C26_Witness ==
    /\ borrow = "cursor_mut" /\ op = "remove_current" /\ ret # NoneT
    /\ len = 2 /\ index = 1 /\ node = end /\ node \in live
    /\ node = FwdNodes[2] /\ pushes = 3 /\ pops = 1

====
